---- MODULE Spec2Model ----
(***************************************************************************)
(* Model of Ames.py, the Utah population dashboard: the two cached loaders *)
(* (load_tiger_counties, read_utah_population), the state filter and left  *)
(* merge that build utah_gdf, and the order in which one page run renders  *)
(* its outputs.  Strings of the program that are built or compared         *)
(* character by character (GEOID, STATEFP, COUNTYFP) are sequences of      *)
(* one-character strings; a value that pandas may leave missing is a       *)
(* sequence of length 0 (NaN) or 1 (the value).                            *)
(***************************************************************************)
EXTENDS Integers, Sequences, FiniteSets, TLC

VARIABLES
    pc,          \* position of the current page run in the script
    err,         \* exception that ended the current run ("none" if none)
    tigerCache,  \* st.cache_data store of load_tiger_counties: <<>> or <<gdf>>
    popCache,    \* st.cache_data store of read_utah_population: <<>> or <<df>>
    TIGER,       \* script variable TIGER of the current run: <<>> or <<gdf>>
    pop_df,      \* script variable pop_df of the current run: <<>> or <<df>>
    utah_gdf,    \* script variable utah_gdf of the current run: <<>> or <<gdf>>
    response,    \* local of load_tiger_counties while it runs: <<>> or <<response>>
    zipOpened,   \* the running call handed response.content to zipfile.ZipFile
    csvRead,     \* pd.read_csv was called in this run
    rendered,    \* what each output of the current run was drawn from
    csv          \* the table pd.read_csv returns (loader specification only)

vars == <<pc, err, tigerCache, popCache, TIGER, pop_df, utah_gdf, response,
          zipOpened, csvRead, rendered, csv>>

(***************************************************************************)
(* Bounds of the model.                                                    *)
(***************************************************************************)
MaxRows == 2

(***************************************************************************)
(* Constants of the program.                                               *)
(***************************************************************************)
CountyLevel == 50
StateWidth == 2
CountyWidth == 3
GeoidWidth == 5
TargetState == <<"4", "9">>

NaN == << >>

(***************************************************************************)
(* int -> str and str.zfill                                                *)
(***************************************************************************)
Digits == <<"0", "1", "2", "3", "4", "5", "6", "7", "8", "9">>

RECURSIVE Str(_)
\* astype(int).astype(str) of a non-negative integer: its decimal digits.
Str(n) == IF n < 10 THEN <<Digits[n + 1]>>
          ELSE Str(n \div 10) \o <<Digits[(n % 10) + 1]>>

zfill_truncating(s, width) ==
    IF Len(s) >= width THEN SubSeq(s, Len(s) - width + 1, Len(s))
    ELSE [i \in 1..(width - Len(s)) |-> "0"] \o s

\* str.zfill(width): pads on the left with "0" up to width, never shortens.
zfill(s, width) ==
    IF Len(s) >= width THEN s
    ELSE [i \in 1..(width - Len(s)) |-> "0"] \o s

IsDigits(s) == \A i \in 1..Len(s) : \E d \in 1..Len(Digits) : s[i] = Digits[d]

(***************************************************************************)
(* The table pd.read_csv("DataPop.csv") returns: rows with the columns the *)
(* loader uses (STATE_ is column STATE).  STATE and COUNTY are >= 0.     *)
(***************************************************************************)
SumLevels == {40, 50}
States == {4, 49}
Counties == {1, 5, 1000}
Estimates == {<<10000, 10500>>, <<5000, 4800>>}

CountyName(c) == CASE c = 1 -> "Beaver County"
                   [] c = 5 -> "Cache County"
                   [] OTHER -> "Other County"

CsvRows == {[SUMLEV |-> s, STATE_ |-> st, COUNTY |-> c, CTYNAME |-> CountyName(c),
             POPESTIMATE2020 |-> e[1], POPESTIMATE2024 |-> e[2]] :
            s \in SumLevels, st \in States, c \in Counties, e \in Estimates}

Csvs == UNION {[1..n -> CsvRows] : n \in 0..MaxRows}

(***************************************************************************)
(* read_utah_population                                                    *)
(***************************************************************************)
IsCountyLevel_any(row) == TRUE

\* df[df['SUMLEV'] == 50]
IsCountyLevel(row) == row.SUMLEV = CountyLevel

Pop_Change_swapped(p2020, p2024) == p2020 - p2024

\* df['POP2024'] - df['POP2020']
Pop_Change(p2020, p2024) == p2024 - p2020

\* The columns built and selected for one row.
PopulationRow(row) ==
    LET statefp  == zfill(Str(row.STATE_), StateWidth)
        countyfp == zfill(Str(row.COUNTY), CountyWidth)
    IN  [NAME       |-> row.CTYNAME,
         GEOID      |-> statefp \o countyfp,
         STATEFP    |-> statefp,
         POP2020    |-> row.POPESTIMATE2020,
         POP2024    |-> row.POPESTIMATE2024,
         Pop_Change |-> Pop_Change(row.POPESTIMATE2020, row.POPESTIMATE2024)]

IsTargetState_any(r) == TRUE

\* df[df['STATEFP'] == "49"]
IsTargetState(r) == r.STATEFP = TargetState

read_utah_population(table) ==
    LET county == SelectSeq(table, IsCountyLevel)
        built  == [i \in 1..Len(county) |-> PopulationRow(county[i])]
    IN  SelectSeq(built, IsTargetState)

(***************************************************************************)
(* The shapefile inside the archive the Census server sends: any selection *)
(* of these county records, in this order.  The last record has a GEOID    *)
(* stored without its leading zero.                                        *)
(***************************************************************************)
RawCounties ==
    << [GEOID |-> <<"4", "9", "0", "0", "1">>, STATEFP |-> <<"4", "9">>],
       [GEOID |-> <<"4", "9", "0", "0", "3">>, STATEFP |-> <<"4", "9">>],
       [GEOID |-> <<"4", "9", "0", "0", "5">>, STATEFP |-> <<"4", "9">>],
       [GEOID |-> <<"4", "0", "0", "1">>,      STATEFP |-> <<"0", "4">>] >>

Selection(S) ==
    LET idx == SelectSeq([i \in 1..Len(RawCounties) |-> i], LAMBDA i : i \in S)
    IN  [k \in 1..Len(idx) |-> RawCounties[idx[k]]]

Shapefiles == {Selection(S) : S \in SUBSET (1..Len(RawCounties))}

\* What requests.get can return: any status with any body, a body being a
\* zip archive holding a shapefile or something that is no zip archive.
StatusCodes == {200, 404}
Contents == {[zip |-> FALSE, shp |-> << >>]}
              \cup {[zip |-> TRUE, shp |-> shp] : shp \in Shapefiles}

(***************************************************************************)
(* st.cache_data: a store per decorated function; both functions are only  *)
(* ever called with one argument value, so a store holds at most one entry *)
(* and is written when the function returns, never when it raises.         *)
(***************************************************************************)
CacheEntry(value) == <<value>>

CacheHit_never(store) == FALSE

CacheHit(store) == store # << >>

(***************************************************************************)
(* load_tiger_counties, after the archive is extracted and read:           *)
(* gdf['GEOID'].astype(str).str.zfill(5); the geometry is not modelled.    *)
(***************************************************************************)
load_tiger_counties(shp) ==
    [i \in 1..Len(shp) |->
        [GEOID |-> zfill(shp[i].GEOID, GeoidWidth), STATEFP |-> shp[i].STATEFP]]

(***************************************************************************)
(* TIGER[TIGER['STATEFP'] == "49"] and merge(pop_df, on='GEOID',           *)
(* how='left').  Both frames have a STATEFP column, so the merged frame    *)
(* has STATEFP_x (boundary) and STATEFP_y (population).                    *)
(***************************************************************************)
StateFilter(gdf) == SelectSeq(gdf, LAMBDA b : b.STATEFP = TargetState)

Matched(l, r) ==
    [GEOID |-> l.GEOID, STATEFP_x |-> l.STATEFP,
     NAME |-> <<r.NAME>>, STATEFP_y |-> <<r.STATEFP>>,
     POP2020 |-> <<r.POP2020>>, POP2024 |-> <<r.POP2024>>,
     Pop_Change |-> <<r.Pop_Change>>]

Unmatched_zero(l) ==
    [GEOID |-> l.GEOID, STATEFP_x |-> l.STATEFP,
     NAME |-> NaN, STATEFP_y |-> NaN,
     POP2020 |-> <<0>>, POP2024 |-> <<0>>, Pop_Change |-> <<0>>]

Unmatched(l) ==
    [GEOID |-> l.GEOID, STATEFP_x |-> l.STATEFP,
     NAME |-> NaN, STATEFP_y |-> NaN,
     POP2020 |-> NaN, POP2024 |-> NaN, Pop_Change |-> NaN]

RECURSIVE merge_inner(_, _)
merge_inner(left, right) ==
    IF left = << >> THEN << >>
    ELSE LET l == Head(left)
             m == SelectSeq(right, LAMBDA r : r.GEOID = l.GEOID)
         IN  [i \in 1..Len(m) |-> Matched(l, m[i])]
             \o merge_inner(Tail(left), right)

RECURSIVE merge(_, _)
\* Left merge on GEOID: the left rows in order, each once per right row with
\* its GEOID, or once with missing right columns if there is none.
merge(left, right) ==
    IF left = << >> THEN << >>
    ELSE LET l == Head(left)
             m == SelectSeq(right, LAMBDA r : r.GEOID = l.GEOID)
         IN  (IF m = << >> THEN <<Unmatched(l)>>
              ELSE [i \in 1..Len(m) |-> Matched(l, m[i])])
             \o merge(Tail(left), right)

(***************************************************************************)
(* What the outputs are drawn from.                                        *)
(***************************************************************************)
SetMin(S) == CHOOSE x \in S : \A y \in S : x <= y
SetMax(S) == CHOOSE x \in S : \A y \in S : x >= y

\* One column of DataFrame.describe(): count, min and max of the values
\* present (mean, std and the quartiles are functions of the same values).
ColumnStats(vals) ==
    LET S == {vals[i] : i \in 1..Len(vals)}
    IN  [count |-> Len(vals),
         min |-> IF S = {} THEN NaN ELSE <<SetMin(S)>>,
         max |-> IF S = {} THEN NaN ELSE <<SetMax(S)>>]

\* df[['POP2020', 'POP2024', 'Pop_Change']].describe()
describe(df) ==
    [POP2020    |-> ColumnStats([i \in 1..Len(df) |-> df[i].POP2020]),
     POP2024    |-> ColumnStats([i \in 1..Len(df) |-> df[i].POP2024]),
     Pop_Change |-> ColumnStats([i \in 1..Len(df) |-> df[i].Pop_Change])]

\* sort_values('POP2024', ascending=False): the rows in an order of
\* non-increasing POP2024; the default sort is not stable, so rows with
\* equal POP2024 may come out in any order.
sort_values(df) ==
    {[i \in 1..Len(df) |-> df[p[i]]] :
        p \in {q \in [1..Len(df) -> 1..Len(df)] :
                 /\ \A i, j \in 1..Len(df) : i # j => q[i] # q[j]
                 /\ \A i, j \in 1..Len(df) :
                       i < j => df[q[i]].POP2024 >= df[q[j]].POP2024}}

BarSource_joined(pop, joined) ==
    LET have == SelectSeq(joined, LAMBDA r : r.POP2024 # NaN)
    IN  [i \in 1..Len(have) |->
            [NAME |-> have[i].NAME[1], GEOID |-> have[i].GEOID,
             STATEFP |-> have[i].STATEFP_y[1], POP2020 |-> have[i].POP2020[1],
             POP2024 |-> have[i].POP2024[1],
             Pop_Change |-> have[i].Pop_Change[1]]]

\* The frame the bar chart is plotted from (line 163): pop_df.
BarSource(pop, joined) == pop

NothingRendered == [stats |-> << >>, map1 |-> << >>, map2 |-> << >>, bar |-> << >>]

(***************************************************************************)
(* One session: page runs of the script, top to bottom.                    *)
(***************************************************************************)
Init ==
    /\ pc = "idle"
    /\ err = "none"
    /\ tigerCache = << >>
    /\ popCache = << >>
    /\ TIGER = << >>
    /\ pop_df = << >>
    /\ utah_gdf = << >>
    /\ response = << >>
    /\ zipOpened = FALSE
    /\ csvRead = FALSE
    /\ rendered = NothingRendered
    /\ csv = << >>

\* The page is opened, or a widget changes and the script is rerun.
StartRun ==
    /\ pc \in {"idle", "done", "failed"}
    /\ pc' = "load_tiger"
    /\ err' = "none"
    /\ TIGER' = << >>
    /\ pop_df' = << >>
    /\ utah_gdf' = << >>
    /\ response' = << >>
    /\ zipOpened' = FALSE
    /\ csvRead' = FALSE
    /\ rendered' = NothingRendered
    /\ UNCHANGED <<tigerCache, popCache, csv>>

Raise_swallowed(e) ==
    /\ err' = e
    /\ pc' = "read_pop"

\* An exception leaves the script: the run ends where it is.
Raise(e) ==
    /\ err' = e
    /\ pc' = "failed"

\* Line 92, load_tiger_counties() with its result in the store.
LoadTigerCached ==
    /\ pc = "load_tiger"
    /\ CacheHit(tigerCache)
    /\ TIGER' = tigerCache
    /\ pc' = "read_pop"
    /\ UNCHANGED <<err, tigerCache, popCache, pop_df, utah_gdf, response,
                   zipOpened, csvRead, rendered, csv>>

\* Line 42 raises: no connection, no response.
LoadTigerNoResponse ==
    /\ pc = "load_tiger"
    /\ ~CacheHit(tigerCache)
    /\ Raise("ConnectionError")
    /\ UNCHANGED <<tigerCache, popCache, TIGER, pop_df, utah_gdf, response,
                   zipOpened, csvRead, rendered, csv>>

\* Line 42: a response arrives, with any status and any content.
LoadTigerResponse ==
    /\ pc = "load_tiger"
    /\ ~CacheHit(tigerCache)
    /\ \E st \in StatusCodes : \E c \in Contents :
          response' = <<[status_code |-> st, content |-> c]>>
    /\ pc' = "open_zip"
    /\ UNCHANGED <<err, tigerCache, popCache, TIGER, pop_df, utah_gdf,
                   zipOpened, csvRead, rendered, csv>>

\* Line 43 on a content that is no zip archive: zipfile.ZipFile raises.
LoadTigerBadZip ==
    /\ pc = "open_zip"
    /\ ~response[1].content.zip
    /\ zipOpened' = TRUE
    /\ Raise("BadZipFile")
    /\ UNCHANGED <<tigerCache, popCache, TIGER, pop_df, utah_gdf, response,
                   csvRead, rendered, csv>>

\* Lines 43-44 on a zip archive: it is opened and extracted.
LoadTigerExtract ==
    /\ pc = "open_zip"
    /\ response[1].content.zip
    /\ zipOpened' = TRUE
    /\ pc' = "read_file"
    /\ UNCHANGED <<err, tigerCache, popCache, TIGER, pop_df, utah_gdf,
                   response, csvRead, rendered, csv>>

\* Lines 46-49 and 92: the shapefile is read and normalised, the function
\* returns (its locals are gone) and the result is stored.
LoadTigerReturn ==
    /\ pc = "read_file"
    /\ TIGER' = <<load_tiger_counties(response[1].content.shp)>>
    /\ tigerCache' = CacheEntry(load_tiger_counties(response[1].content.shp))
    /\ response' = << >>
    /\ zipOpened' = FALSE
    /\ pc' = "read_pop"
    /\ UNCHANGED <<err, popCache, pop_df, utah_gdf, csvRead, rendered, csv>>

\* Line 95, read_utah_population("DataPop.csv") with its result in the store.
ReadPopCached ==
    /\ pc = "read_pop"
    /\ CacheHit(popCache)
    /\ pop_df' = popCache
    /\ pc' = "stats"
    /\ UNCHANGED <<err, tigerCache, popCache, TIGER, utah_gdf, response,
                   zipOpened, csvRead, rendered, csv>>

\* Line 59 raises: there is no file DataPop.csv.
ReadPopNoFile ==
    /\ pc = "read_pop"
    /\ ~CacheHit(popCache)
    /\ csvRead' = TRUE
    /\ Raise("FileNotFoundError")
    /\ UNCHANGED <<tigerCache, popCache, TIGER, pop_df, utah_gdf, response,
                   zipOpened, rendered, csv>>

\* Lines 59-87 on the table the file holds, and the result stored.
ReadCsv(table) ==
    /\ pc = "read_pop"
    /\ ~CacheHit(popCache)
    /\ csvRead' = TRUE
    /\ LET df == read_utah_population(table)
       IN  pop_df' = <<df>> /\ popCache' = CacheEntry(df)
    /\ pc' = "stats"
    /\ UNCHANGED <<err, tigerCache, TIGER, utah_gdf, response, zipOpened, rendered, csv>>

\* Line 95 without a stored result: the file holds some table.
ReadPopLoaded ==
    /\ pc = "read_pop"
    /\ \E table \in Csvs : ReadCsv(table)

\* Line 99.
SidebarStats ==
    /\ pc = "stats"
    /\ rendered' = [rendered EXCEPT !.stats = <<describe(pop_df[1])>>]
    /\ pc' = "merge"
    /\ UNCHANGED <<err, tigerCache, popCache, TIGER, pop_df, utah_gdf,
                   response, zipOpened, csvRead, csv>>

\* Lines 107-110.
JoinAndFilter ==
    /\ pc = "merge"
    /\ utah_gdf' = <<merge(StateFilter(TIGER[1]), pop_df[1])>>
    /\ pc' = "map1"
    /\ UNCHANGED <<err, tigerCache, popCache, TIGER, pop_df, response,
                   zipOpened, csvRead, rendered, csv>>

\* Lines 112-131.
MapPopChange ==
    /\ pc = "map1"
    /\ rendered' = [rendered EXCEPT
                      !.map1 = <<[data |-> utah_gdf[1], column |-> "Pop_Change"]>>]
    /\ pc' = "map2"
    /\ UNCHANGED <<err, tigerCache, popCache, TIGER, pop_df, utah_gdf,
                   response, zipOpened, csvRead, csv>>

\* Lines 138-156.
MapPop2024 ==
    /\ pc = "map2"
    /\ rendered' = [rendered EXCEPT
                      !.map2 = <<[data |-> utah_gdf[1], column |-> "POP2024"]>>]
    /\ pc' = "bar"
    /\ UNCHANGED <<err, tigerCache, popCache, TIGER, pop_df, utah_gdf,
                   response, zipOpened, csvRead, csv>>

\* Lines 163-179 on a frame with rows.
BarChart ==
    /\ pc = "bar"
    /\ BarSource(pop_df[1], utah_gdf[1]) # << >>
    /\ \E plot_df \in sort_values(BarSource(pop_df[1], utah_gdf[1])) :
          rendered' = [rendered EXCEPT
             !.bar = <<[data |-> plot_df,
                        xticklabels |-> [i \in 1..Len(plot_df) |-> plot_df[i].NAME]]>>]
    /\ pc' = "done"
    /\ UNCHANGED <<err, tigerCache, popCache, TIGER, pop_df, utah_gdf,
                   response, zipOpened, csvRead, csv>>

\* Line 166 on a frame without rows: DataFrame.plot raises.
BarChartNoData ==
    /\ pc = "bar"
    /\ BarSource(pop_df[1], utah_gdf[1]) = << >>
    /\ Raise("TypeError")
    /\ UNCHANGED <<tigerCache, popCache, TIGER, pop_df, utah_gdf, response,
                   zipOpened, csvRead, rendered, csv>>

Next ==
    \/ StartRun
    \/ LoadTigerCached
    \/ LoadTigerNoResponse
    \/ LoadTigerResponse
    \/ LoadTigerBadZip
    \/ LoadTigerExtract
    \/ LoadTigerReturn
    \/ ReadPopCached
    \/ ReadPopNoFile
    \/ ReadPopLoaded
    \/ SidebarStats
    \/ JoinAndFilter
    \/ MapPopChange
    \/ MapPop2024
    \/ BarChart
    \/ BarChartNoData

Spec == Init /\ [][Next]_vars

(***************************************************************************)
(* Specification of the population loader alone: the file holds any table  *)
(* of at most MaxRows rows, kept in csv, and the only step is the call of  *)
(* line 95.                                                                *)
(***************************************************************************)
LoaderInit ==
    /\ csv \in Csvs
    /\ pc = "read_pop"
    /\ err = "none"
    /\ tigerCache = << >>
    /\ popCache = << >>
    /\ TIGER = << >>
    /\ pop_df = << >>
    /\ utah_gdf = << >>
    /\ response = << >>
    /\ zipOpened = FALSE
    /\ csvRead = FALSE
    /\ rendered = NothingRendered

LoaderNext == ReadCsv(csv)

LoaderSpec == LoaderInit /\ [][LoaderNext]_vars

(***************************************************************************)
(* Properties of the population loader.                                    *)
(***************************************************************************)
Returned == pop_df # << >>
out == pop_df[1]

\* f picks, in order, the input row each returned row was built from.
Origin(f) ==
    /\ \A i \in DOMAIN f : \A j \in DOMAIN f : i < j => f[i] < f[j]
    /\ \A i \in DOMAIN f :
          /\ out[i].NAME = csv[f[i]].CTYNAME
          /\ out[i].POP2020 = csv[f[i]].POPESTIMATE2020
          /\ out[i].POP2024 = csv[f[i]].POPESTIMATE2024

Origins == {f \in [1..Len(out) -> 1..Len(csv)] : Origin(f)}

RECURSIVE NumVal(_)
\* The number a string of decimal digits denotes.
NumVal(s) ==
    IF s = << >> THEN 0
    ELSE 10 * NumVal(SubSeq(s, 1, Len(s) - 1))
         + (CHOOSE d \in 0..9 : Digits[d + 1] = s[Len(s)])

\* C3 as stated: every returned GEOID is the padded state code followed by
\* the padded county code and is exactly 5 digits.
C3_AsStated ==
    Returned =>
        \E f \in Origins : \A i \in DOMAIN f :
            LET g == out[i].GEOID IN
            /\ IsDigits(g)
            /\ Len(g) = GeoidWidth
            /\ NumVal(SubSeq(g, 1, StateWidth)) = csv[f[i]].STATE_
            /\ NumVal(SubSeq(g, StateWidth + 1, Len(g))) = csv[f[i]].COUNTY

\* C3 amended: every returned GEOID consists of digits only, starts with the
\* two digits of the state code, continues with the county code padded with
\* zeros to at least 3 digits, and is exactly 5 characters long exactly when
\* the county code is below 1000.
C3_Geoid ==
    Returned =>
        \E f \in Origins : \A i \in DOMAIN f :
            LET g == out[i].GEOID IN
            /\ IsDigits(g)
            /\ Len(g) >= GeoidWidth
            /\ NumVal(SubSeq(g, 1, StateWidth)) = csv[f[i]].STATE_
            /\ NumVal(SubSeq(g, StateWidth + 1, Len(g))) = csv[f[i]].COUNTY
            /\ (Len(g) = GeoidWidth <=> csv[f[i]].COUNTY < 1000)

C3_Witness ==
    /\ Returned
    /\ \E i \in 1..Len(out) : out[i].GEOID = <<"4", "9", "0", "0", "5">>
    /\ \E i \in 1..Len(out) : Len(out[i].GEOID) > GeoidWidth

\* C4: every returned row is built from an input row whose SUMLEV is 50, and
\* no more rows are returned than the input has county-level rows.
C4_CountyLevelOnly ==
    Returned =>
        /\ \E f \in Origins : \A i \in DOMAIN f : csv[f[i]].SUMLEV = 50
        /\ Len(out) <= Cardinality({k \in 1..Len(csv) : csv[k].SUMLEV = 50})

C4_Witness ==
    /\ Returned
    /\ Len(out) = 1
    /\ \E k \in 1..Len(csv) : csv[k].SUMLEV # 50 /\ csv[k].STATE_ = 49

\* C5: every returned row has STATEFP "49", and the returned rows are exactly
\* the county-level input rows of state 49, in input order.
C5_TargetStateOnly ==
    Returned =>
        /\ \A i \in 1..Len(out) : out[i].STATEFP = <<"4", "9">>
        /\ \E f \in Origins :
              {f[i] : i \in DOMAIN f}
                = {k \in 1..Len(csv) : csv[k].SUMLEV = 50 /\ csv[k].STATE_ = 49}

C5_Witness ==
    /\ Returned
    /\ Len(out) = 1
    /\ \E k \in 1..Len(csv) : csv[k].SUMLEV = 50 /\ csv[k].STATE_ # 49

\* C6: Pop_Change of every returned row is the 2024 estimate minus the 2020
\* estimate of the input row it was built from.
C6_PopChange ==
    Returned =>
        \E f \in Origins : \A i \in DOMAIN f :
            out[i].Pop_Change
              = csv[f[i]].POPESTIMATE2024 - csv[f[i]].POPESTIMATE2020

C6_Witness ==
    /\ Returned
    /\ \E i \in 1..Len(out) : out[i].Pop_Change = -200
    /\ \E i \in 1..Len(out) : out[i].Pop_Change = 500

(***************************************************************************)
(* Properties of the join (lines 106-110).                                 *)
(***************************************************************************)
Joined == utah_gdf # << >>
boundary == TIGER[1]
pop == pop_df[1]
joined == utah_gdf[1]

\* The rows of the boundary set that belong to the target state.
UtahRows == {i \in 1..Len(boundary) : boundary[i].STATEFP = <<"4", "9">>}

\* The population records with the GEOID of boundary row i.
Records(i) == {j \in 1..Len(pop) : pop[j].GEOID = boundary[i].GEOID}

RECURSIVE Total(_, _)
Total(n(_), S) ==
    IF S = {} THEN 0
    ELSE LET i == CHOOSE x \in S : TRUE IN n(i) + Total(n, S \ {i})

\* C1 as stated: the joined view has exactly as many rows as the
\* state-filtered boundary set.
C1_AsStated == Joined => Len(joined) = Cardinality(UtahRows)

\* C1 amended: the joined view holds every Utah boundary row once for each
\* population record with its GEOID and once if there is none, so it never
\* has fewer rows than the state-filtered boundary set and has exactly as
\* many if and only if no Utah boundary row has more than one such record.
C1_RowCount ==
    Joined =>
        LET times(i) == IF Cardinality(Records(i)) = 0 THEN 1
                        ELSE Cardinality(Records(i))
        IN  /\ Len(joined) = Total(times, UtahRows)
            /\ Len(joined) >= Cardinality(UtahRows)
            /\ (Len(joined) = Cardinality(UtahRows)
                  <=> \A i \in UtahRows : Cardinality(Records(i)) <= 1)

C1_Witness ==
    /\ Joined
    /\ Len(joined) > Cardinality(UtahRows)
    /\ \E i \in UtahRows : Records(i) = {}

\* C2: every Utah boundary row is in the joined view; a joined row whose
\* GEOID no population record has carries missing (not zero) population
\* fields, any other carries the values of a record with its GEOID; and
\* boundaries 49001, 49003, 49005 with records for 49001 (10000, 10500) and
\* 49005 (5000, 4800) give 3 rows, 49003 missing, changes 500 and -200.
ExampleScenario ==
    /\ Joined
    /\ {boundary[i].GEOID : i \in UtahRows}
         = {<<"4", "9", "0", "0", "1">>, <<"4", "9", "0", "0", "3">>,
            <<"4", "9", "0", "0", "5">>}
    /\ Len(pop) = 2
    /\ pop[1].GEOID = <<"4", "9", "0", "0", "1">>
    /\ pop[1].POP2020 = 10000 /\ pop[1].POP2024 = 10500
    /\ pop[2].GEOID = <<"4", "9", "0", "0", "5">>
    /\ pop[2].POP2020 = 5000 /\ pop[2].POP2024 = 4800

C2_LeftJoinFields ==
    Joined =>
        /\ \A i \in UtahRows :
              \E k \in 1..Len(joined) : joined[k].GEOID = boundary[i].GEOID
        /\ \A k \in 1..Len(joined) :
              LET m == {j \in 1..Len(pop) : pop[j].GEOID = joined[k].GEOID}
              IN  IF m = {}
                  THEN /\ joined[k].POP2020 = << >>
                       /\ joined[k].POP2024 = << >>
                       /\ joined[k].Pop_Change = << >>
                  ELSE \E j \in m :
                       /\ joined[k].POP2020 = <<pop[j].POP2020>>
                       /\ joined[k].POP2024 = <<pop[j].POP2024>>
                       /\ joined[k].Pop_Change = <<pop[j].Pop_Change>>
        /\ ExampleScenario =>
              /\ Len(joined) = 3
              /\ joined[1].Pop_Change = <<500>>
              /\ joined[2].GEOID = <<"4", "9", "0", "0", "3">>
              /\ joined[2].Pop_Change = << >>
              /\ joined[3].Pop_Change = <<-200>>

C2_Witness == ExampleScenario /\ pc = "done"

(***************************************************************************)
(* Properties of the boundary loader and of a page run.                    *)
(***************************************************************************)
\* C7: when no response arrives or the response has a non-success status,
\* load_tiger_counties fails with a retrieval error and the response content
\* is never handed to zipfile.ZipFile.
C7_RetrievalError ==
    /\ err = "ConnectionError" => ~zipOpened
    /\ (response # << >> /\ response[1].status_code # 200) =>
          /\ ~zipOpened
          /\ pc # "open_zip" =>
                (pc = "failed" /\ err \in {"ConnectionError", "HTTPError"})

\* C8: once load_tiger_counties has returned, no later step of the session
\* requests or extracts the archive again, the stored boundary set never
\* changes, and every later call returns it.
C8_FetchedOnce ==
    [][tigerCache # << >> =>
          /\ response' = << >>
          /\ ~zipOpened'
          /\ tigerCache' = tigerCache
          /\ (TIGER' # << >> => TIGER' = tigerCache)]_vars

\* A later run (the population store is filled by an earlier one) in which
\* line 92 has returned the stored boundary set.
C8_Witness ==
    /\ pc = "read_pop"
    /\ popCache # << >>
    /\ TIGER # << >>
    /\ TIGER = tigerCache
    /\ response = << >>

\* The exceptions load_tiger_counties and read_utah_population raise.
LoaderErrors == {"ConnectionError", "BadZipFile", "FileNotFoundError"}

\* C9: a run in which a loader raised has rendered nothing and built no
\* joined view, its only continuation is a new run, and if it was the
\* boundary loader that raised the CSV was not read in that run.
C9_LoaderFailureStops ==
    [][/\ err' \in LoaderErrors =>
             /\ rendered' = NothingRendered
             /\ utah_gdf' = << >>
             /\ (err' # "FileNotFoundError" => ~csvRead' /\ pop_df' = << >>)
       /\ err \in LoaderErrors => (pc' = "load_tiger" /\ err' = "none")]_vars

C9_Witness ==
    /\ pc = "failed"
    /\ err = "FileNotFoundError"
    /\ TIGER # << >>
    /\ Len(TIGER[1]) > 0
    /\ rendered = NothingRendered

\* A population record whose GEOID no row of the joined view has.
Orphan(r) == \A k \in 1..Len(joined) : joined[k].GEOID # r.GEOID

====
